---- MODULE Spec2Model ----
(***************************************************************************)
(* DataAnalyzer (src/src/analyzer.py): one analyzer object holding a       *)
(* table (a pandas DataFrame) and its seven analysis operations.           *)
(*                                                                         *)
(* Encoding of values                                                      *)
(*   category, customer_id : small integers standing for labels whose      *)
(*                           sort order is the integer order               *)
(*   amount                : integers (sums are exact)                     *)
(*   date, dtype object    : <<year, month, day>>, the ISO string's fields *)
(*   date, dtype datetime64: <<days since 1970-01-01>>                     *)
(*   a fraction n/d        : <<n, d>>                                      *)
(*   a standard deviation  : <<n, d>>, standing for sqrt(n/d)              *)
(*   NaN                   : <<>>                                          *)
(***************************************************************************)
EXTENDS Integers, Sequences, FiniteSets, TLC

VARIABLES data,   \* self.data : None or a table
          given,  \* the table most recently handed to __init__ / set_data
          pre,    \* self.data as it was when the last analysis call started
          last,   \* the last call: [op, args, out]
          stable_sort, \* the build: whether its default sort (quicksort)
                       \* keeps elements of equal value in their order
          loader,      \* a DataLoader: [data, file_path]
          loader_pre   \* the loader as it was when its last call started

vars == <<data, given, pre, last, stable_sort, loader, loader_pre>>

MaxRows == 3      \* rows of a table handed to the constructor
MaxSetRows == 1   \* rows of a table handed to set_data

---------------------------------------------------------------------------
(* Generic helpers *)

RECURSIVE SumSeq(_)
SumSeq(s) == IF s = <<>> THEN 0 ELSE Head(s) + SumSeq(Tail(s))

SetMin(S) == CHOOSE x \in S : \A y \in S : x <= y
SetMax(S) == CHOOSE x \in S : \A y \in S : x >= y

RECURSIVE SortedKeys(_)
SortedKeys(S) == IF S = {} THEN <<>>
                 ELSE LET m == SetMin(S) IN <<m>> \o SortedKeys(S \ {m})

RECURSIVE InsertAsc(_, _)
InsertAsc(x, s) == IF s = <<>> THEN <<x>>
                   ELSE IF x <= Head(s) THEN <<x>> \o s
                   ELSE <<Head(s)>> \o InsertAsc(x, Tail(s))

RECURSIVE SortAsc(_)
SortAsc(s) == IF s = <<>> THEN <<>> ELSE InsertAsc(Head(s), SortAsc(Tail(s)))

Range(s) == {s[i] : i \in 1..Len(s)}

NaN == <<>>
Num(x) == <<x>>

---------------------------------------------------------------------------
(* Calendar: the proleptic Gregorian calendar of pandas Timestamps *)

DaysFromCivil(y, m, d) ==
  LET yy  == IF m <= 2 THEN y - 1 ELSE y
      era == yy \div 400
      yoe == yy - era * 400
      mp  == IF m > 2 THEN m - 3 ELSE m + 9
      doy == (153 * mp + 2) \div 5 + d - 1
      doe == yoe * 365 + yoe \div 4 - yoe \div 100 + doy
  IN  era * 146097 + doe - 719468

CivilFromDays(z0) ==
  LET z   == z0 + 719468
      era == z \div 146097
      doe == z - era * 146097
      yoe == (doe - doe \div 1460 + doe \div 36524 - doe \div 146096) \div 365
      doy == doe - (365 * yoe + yoe \div 4 - yoe \div 100)
      mp  == (5 * doy + 2) \div 153
      d   == doy - (153 * mp + 2) \div 5 + 1
      m   == IF mp < 10 THEN mp + 3 ELSE mp - 9
      y   == yoe + era * 400 + (IF m <= 2 THEN 1 ELSE 0)
  IN  <<y, m, d>>

\* Monday = 0 .. Sunday = 6 (1970-01-01 was a Thursday)
Weekday(z) == (z + 3) % 7

\* pd.to_datetime on an ISO date string
ToDatetime(s) == <<DaysFromCivil(s[1], s[2], s[3])>>

\* the day number of a datetime64 cell
Day(ts) == ts[1]

---------------------------------------------------------------------------
(* Tables *)

None == [none |-> TRUE]

Columns == {"date", "category", "amount", "customer_id"}

Row(d, c, a, k) == [date |-> d, category |-> c, amount |-> a, customer_id |-> k]

\* The rows tables are built from, dates as the strings of a CSV file.
RowPool ==
  { Row(<<2023, 1, 1>>,   1, 1, 1),    \* a Sunday, first day of a year
    Row(<<2023, 1, 2>>,   2, 1, 2),    \* the Monday after
    Row(<<2023, 4, 1>>,   1, 2, 1),    \* first day of the next quarter
    Row(<<2022, 12, 31>>, 2, 3, 3) }   \* last day of the year before

RowSeqs(max) == UNION { [1..n -> RowPool] : n \in 0..max }

ObjectTable(rows) == [columns |-> Columns, date_dtype |-> "object", rows |-> rows]

ConvertDates(t) ==
  [t EXCEPT !.date_dtype = "datetime64",
            !.rows = [i \in 1..Len(t.rows) |->
                        [t.rows[i] EXCEPT !.date = ToDatetime(t.rows[i].date)]]]

\* Every table an analyzer may be handed: dates still strings, or parsed.
TablesUpTo(max) ==
  { ObjectTable(r) : r \in RowSeqs(max) } \cup { ConvertDates(ObjectTable(r)) : r \in RowSeqs(max) }

Tables == TablesUpTo(MaxRows)
SetTables == TablesUpTo(MaxSetRows)

Err(e) == [status |-> "error", error |-> e]
Ok(v)  == [status |-> "ok", value |-> v]

EmptyDataError  == "ValueError: No data available for analysis."
SchemaError     == "ValueError: Column not found in data."

NoArg == "None"
MaxCount == 3
\* the n of get_top_spending_categories and the n_segments of segment_customers
CountArgs == (0 - 2)..(MaxCount + 1)
GroupArgs == {NoArg, "category", "customer_id", "region"}

\* _validate_data: TRUE when it raises
NoData(self) == self = None \/ Len(self.rows) = 0

\* DataLoader(): nothing loaded
NewLoader == [data |-> None, file_path |-> None]

---------------------------------------------------------------------------
(* Descriptive statistics of a non-empty sequence of amounts *)

Mean(a) == <<SumSeq(a), Len(a)>>

Median(a) ==
  LET s == SortAsc(a)
      n == Len(a)
  IN  IF n % 2 = 1 THEN <<2 * s[(n + 1) \div 2], 2>>
      ELSE <<s[n \div 2] + s[n \div 2 + 1], 2>>

\* faulty variant: the population standard deviation, ddof = 0
StdPopulation(a) ==
  LET n  == Len(a)
      s1 == SumSeq(a)
      s2 == SumSeq([i \in 1..n |-> a[i] * a[i]])
  IN  <<n * s2 - s1 * s1, n * n>>

\* sample standard deviation, ddof = 1: sqrt of the returned fraction
Std(a) ==
  LET n  == Len(a)
      s1 == SumSeq(a)
      s2 == SumSeq([i \in 1..n |-> a[i] * a[i]])
  IN  IF n < 2 THEN NaN ELSE <<n * s2 - s1 * s1, n * (n - 1)>>

\* linear-interpolation quantile k/4
Quantile(a, k) ==
  LET s   == SortAsc(a)
      pos == (Len(a) - 1) * k
      lo  == pos \div 4 + 1
      r   == pos % 4
  IN  IF r = 0 THEN <<4 * s[lo], 4>>
      ELSE <<4 * s[lo] + r * (s[lo + 1] - s[lo]), 4>>

AmountsOf(rows) == [i \in 1..Len(rows) |-> rows[i].amount]

\* the cell of row r in column col is missing (NaN): only rows that carry a
\* set of missing columns have missing cells
IsNull(r, col) == "missing" \in DOMAIN r /\ col \in r.missing

\* the rows of a group of groupby(col); a row whose key is missing is in no
\* group (dropna=True)
RowsWhere(rows, col, key) == SelectSeq(rows, LAMBDA r : ~IsNull(r, col) /\ r[col] = key)

\* the rows whose amount is present: sum() skips a missing amount
WithAmount(rows) == SelectSeq(rows, LAMBDA r : ~IsNull(r, "amount"))

\* faulty variant: the keys in first-seen order (groupby(..., sort=False))
RECURSIVE FirstSeen(_, _)
FirstSeen(rows, col) ==
  IF rows = <<>> THEN <<>>
  ELSE LET init == FirstSeen(SubSeq(rows, 1, Len(rows) - 1), col)
           k    == rows[Len(rows)][col]
       IN  IF k \in Range(init) THEN init ELSE Append(init, k)

\* the group keys of groupby(col), sorted; a missing key is no group
KeysOf(rows, col) ==
  SortedKeys({rows[i][col] : i \in {j \in 1..Len(rows) : ~IsNull(rows[j], col)}})

\* Series.describe()
Describe(a) ==
  [count |-> Len(a), mean |-> Mean(a), std |-> Std(a), min |-> SetMin(Range(a)),
   q25 |-> Quantile(a, 1), q50 |-> Quantile(a, 2), q75 |-> Quantile(a, 3),
   max |-> SetMax(Range(a))]

\* faulty variant: the aggregates skip the first row of the group
AggRowSkipFirst(key, a) ==
  LET b == IF Len(a) > 1 THEN Tail(a) ELSE a
  IN  [key |-> key, count |-> Len(b), mean |-> Mean(b), median |-> Median(b),
       std |-> Std(b), min |-> SetMin(Range(b)), max |-> SetMax(Range(b)),
       sum |-> SumSeq(b)]

\* one row of groupby(col)['amount'].agg([...])
AggRow(key, a) ==
  [key |-> key, count |-> Len(a), mean |-> Mean(a), median |-> Median(a),
   std |-> Std(a), min |-> SetMin(Range(a)), max |-> SetMax(Range(a)),
   sum |-> SumSeq(a)]

\* groupby(col): the groups in sorted key order
GroupedAgg(rows, col) ==
  LET keys == KeysOf(rows, col)
  IN  [i \in 1..Len(keys) |-> AggRow(keys[i], AmountsOf(RowsWhere(rows, col, keys[i])))]

\* faulty variant: the column is looked up before the data is validated
SummaryColumnFirst(self, groupby) ==
  IF groupby # NoArg /\ groupby \notin Columns
  THEN [data |-> self, out |-> Err(SchemaError)]
  ELSE IF NoData(self) THEN [data |-> self, out |-> Err(EmptyDataError)]
  ELSE IF groupby # NoArg
       THEN [data |-> self, out |-> Ok(GroupedAgg(self.rows, groupby))]
       ELSE [data |-> self, out |-> Ok(Describe(AmountsOf(self.rows)))]

get_summary_statistics(self, groupby) ==
  IF NoData(self) THEN [data |-> self, out |-> Err(EmptyDataError)]
  ELSE IF groupby # NoArg
       THEN IF groupby \notin self.columns
            THEN [data |-> self, out |-> Err(SchemaError)]
            ELSE [data |-> self, out |-> Ok(GroupedAgg(self.rows, groupby))]
       ELSE [data |-> self, out |-> Ok(Describe(AmountsOf(self.rows)))]

---------------------------------------------------------------------------
(* Time series: Series.resample(freq).sum() on a DatetimeIndex *)

Freqs == {"D", "W", "M", "Q", "Y"}
FreqArgs == Freqs \cup {"X"}

InvalidFrequency == "ValueError: Invalid frequency"

\* faulty variant: the quarters cut one month early (December opens a quarter)
PeriodOfShifted(f, z) ==
  LET c == CivilFromDays(z)
  IN  CASE f = "D" -> z
        [] f = "W" -> (z + 3) \div 7
        [] f = "M" -> c[1] * 12 + (c[2] - 1)
        [] f = "Q" -> c[1] * 4 + c[2] \div 3
        [] f = "Y" -> c[1]

\* The number of the period of frequency f that holds day z: days, weeks
\* Monday..Sunday (W-SUN), calendar months, quarters and years.
PeriodOf(f, z) ==
  LET c == CivilFromDays(z)
  IN  CASE f = "D" -> z
        [] f = "W" -> (z + 3) \div 7
        [] f = "M" -> c[1] * 12 + (c[2] - 1)
        [] f = "Q" -> c[1] * 4 + (c[2] - 1) \div 3
        [] f = "Y" -> c[1]

\* first day of calendar month number mi (= year * 12 + month - 1)
MonthStart(mi) == DaysFromCivil(mi \div 12, (mi % 12) + 1, 1)

\* faulty variant: a bin labelled by its left edge, the first day of period p
PeriodStart(f, p) ==
  CASE f = "D" -> p
    [] f = "W" -> p * 7 - 3
    [] f = "M" -> MonthStart(p)
    [] f = "Q" -> MonthStart(3 * p)
    [] f = "Y" -> MonthStart(12 * p)

\* The day that labels period p in the result: resample labels a bin by
\* its right edge, the last day of the period.
PeriodLabel(f, p) ==
  CASE f = "D" -> p
    [] f = "W" -> p * 7 - 3 + 6
    [] f = "M" -> MonthStart(p + 1) - 1
    [] f = "Q" -> MonthStart(3 * p + 3) - 1
    [] f = "Y" -> MonthStart(12 * p + 12) - 1

\* the period of every row, in row order
RECURSIVE PeriodsOf(_, _)
PeriodsOf(f, rows) ==
  IF rows = <<>> THEN <<>>
  ELSE <<PeriodOf(f, Day(Head(rows).date))>> \o PeriodsOf(f, Tail(rows))

\* The bins of one resample: every period from that of the earliest row to
\* that of the latest row, with or without rows in it, as <<first, last>>.
BinRange(f, rows) ==
  LET ps == Range(PeriodsOf(f, rows))
  IN  <<SetMin(ps), SetMax(ps)>>

\* faulty variant: a group's cell sums the rows of every group in the period
GroupBinSumAllGroups(rows, per, col, key, p) ==
  SumSeq([i \in 1..Len(rows) |-> IF per[i] = p THEN rows[i].amount ELSE 0])

\* sum() of the amounts of the rows of group key (of column col) in period p,
\* 0 for a bin without rows; per[i] is the period of rows[i]
GroupBinSum(rows, per, col, key, p) ==
  SumSeq([i \in 1..Len(rows) |->
            IF per[i] = p /\ rows[i][col] = key THEN rows[i].amount ELSE 0])

\* the same over all rows
BinSum(rows, per, p) ==
  SumSeq([i \in 1..Len(rows) |-> IF per[i] = p THEN rows[i].amount ELSE 0])

\* faulty variant: only the periods that hold a row (a groupby on the period)
ResampleNoEmptyBins(f, rows) ==
  LET per == PeriodsOf(f, rows)
      ps  == SortedKeys(Range(per))
  IN  [i \in 1..Len(ps) |->
         [key |-> <<PeriodLabel(f, ps[i])>>, value |-> BinSum(rows, per, ps[i])]]

\* rows.set_index('date')['amount'].resample(f).sum(), in index order
Resample(f, rows) ==
  LET per == PeriodsOf(f, rows)
      rng == BinRange(f, rows)
  IN  [i \in 1..(rng[2] - rng[1] + 1) |->
         [key |-> <<PeriodLabel(f, rng[1] + i - 1)>>,
          value |-> BinSum(rows, per, rng[1] + i - 1)]]

\* the bin ranges of the groups, in the order of keys
RECURSIVE GroupRanges(_, _, _, _)
GroupRanges(f, rows, col, keys) ==
  IF keys = <<>> THEN <<>>
  ELSE <<BinRange(f, RowsWhere(rows, col, Head(keys)))>>
         \o GroupRanges(f, rows, col, Tail(keys))

\* faulty variant: the combined table with its missing cells filled with 0
ConcatCellFilled(in_range, sum) == Num(sum)

\* the cell of the combined table for a group and a bin: the group's own
\* value where its series has that bin (in_range), NaN where it has not
ConcatCell(in_range, sum) == IF in_range THEN Num(sum) ELSE NaN

\* the entries of ps that idx lacks, appended to idx
RECURSIVE AppendNew(_, _)
AppendNew(idx, ps) ==
  IF ps = <<>> THEN idx
  ELSE AppendNew(IF Head(ps) \in Range(idx) THEN idx ELSE Append(idx, Head(ps)),
                 Tail(ps))

\* the bins of the ranges gr, those of the first range first, each later
\* range adding the bins not yet there
RECURSIVE AppendedIndex(_)
AppendedIndex(gr) ==
  IF gr = <<>> THEN <<>>
  ELSE LET r == gr[Len(gr)]
       IN  AppendNew(AppendedIndex(SubSeq(gr, 1, Len(gr) - 1)),
                     [i \in 1..(r[2] - r[1] + 1) |-> r[1] + i - 1])

\* faulty variant: the outer join of the groups' indexes left unsorted, the
\* bins in the order in which the groups bring them
ConcatUnsorted(f, rows, col) ==
  LET keys == KeysOf(rows, col)
      per  == PeriodsOf(f, rows)
      gr   == GroupRanges(f, rows, col, keys)
      InGroup(k, p) == gr[k][1] <= p /\ p <= gr[k][2]
      idx  == AppendedIndex(gr)
      cell(k, p) == ConcatCell(InGroup(k, p), GroupBinSum(rows, per, col, keys[k], p))
  IN  [columns |-> keys,
       rows |-> [i \in 1..Len(idx) |->
                   [key |-> <<PeriodLabel(f, idx[i])>>,
                    cells |-> [k \in 1..Len(keys) |-> cell(k, idx[i])]]]]

\* pd.concat(groups, axis=1) of the groups' resampled series: outer join of
\* the groups' indexes, sorted; a cell is NaN where the group's own series
\* has no such bin.
ConcatResampled(f, rows, col) ==
  LET keys == KeysOf(rows, col)
      per  == PeriodsOf(f, rows)
      gr   == GroupRanges(f, rows, col, keys)
      rng  == BinRange(f, rows)
      InGroup(k, p) == gr[k][1] <= p /\ p <= gr[k][2]
      idx  == SelectSeq([i \in 1..(rng[2] - rng[1] + 1) |-> rng[1] + i - 1],
                        LAMBDA p : \E k \in 1..Len(keys) : InGroup(k, p))
      cell(k, p) == ConcatCell(InGroup(k, p), GroupBinSum(rows, per, col, keys[k], p))
  IN  [columns |-> keys,
       rows |-> [i \in 1..Len(idx) |->
                   [key |-> <<PeriodLabel(f, idx[i])>>,
                    cells |-> [k \in 1..Len(keys) |-> cell(k, idx[i])]]]]

\* faulty variant: the frequency is checked before the group column
TimeSeriesFreqFirst(self, freq, groupby) ==
  IF NoData(self) THEN [data |-> self, out |-> Err(EmptyDataError)]
  ELSE
    LET conv == IF self.date_dtype # "datetime64" THEN ConvertDates(self) ELSE self
    IN  IF freq \notin Freqs
        THEN [data |-> conv, out |-> Err(InvalidFrequency)]
        ELSE IF groupby # NoArg
             THEN IF groupby \notin conv.columns
                  THEN [data |-> conv, out |-> Err(SchemaError)]
                  ELSE [data |-> conv, out |-> Ok(ConcatResampled(freq, conv.rows, groupby))]
             ELSE [data |-> conv, out |-> Ok(Resample(freq, conv.rows))]

analyze_time_series(self, freq, groupby) ==
  IF NoData(self) THEN [data |-> self, out |-> Err(EmptyDataError)]
  ELSE
    LET conv == IF self.date_dtype # "datetime64" THEN ConvertDates(self) ELSE self
    IN  IF groupby # NoArg
        THEN IF groupby \notin conv.columns
             THEN [data |-> conv, out |-> Err(SchemaError)]
             ELSE IF freq \notin Freqs
                  THEN [data |-> conv, out |-> Err(InvalidFrequency)]
                  ELSE [data |-> conv, out |-> Ok(ConcatResampled(freq, conv.rows, groupby))]
        ELSE IF freq \notin Freqs
             THEN [data |-> conv, out |-> Err(InvalidFrequency)]
             ELSE [data |-> conv, out |-> Ok(Resample(freq, conv.rows))]

---------------------------------------------------------------------------
(* Distribution, top categories, segments *)

\* groupby(col)['amount'].sum(): one [key, value] per key, in sorted key order
GroupSums(rows, col) ==
  LET keys == KeysOf(rows, col)
  IN  [i \in 1..Len(keys) |->
         [key |-> keys[i],
          value |-> SumSeq(AmountsOf(WithAmount(RowsWhere(rows, col, keys[i]))))]]

\* faulty variant: the entries sorted ascending by value
RECURSIVE InsertAscByValue(_, _)
InsertAscByValue(x, s) ==
  IF s = <<>> THEN <<x>>
  ELSE IF x.value < Head(s).value THEN <<x>> \o s
  ELSE <<Head(s)>> \o InsertAscByValue(x, Tail(s))

\* sort_values(ascending=False), kind='quicksort': descending by value. The
\* order of entries of equal value is not defined by the sort: they keep the
\* order they had where the build's quicksort of a short array is an
\* insertion sort (stable_sort), and come out in another order where it is
\* a sorting network; the other order modelled is the reverse.
RECURSIVE InsertDesc(_, _)
InsertDesc(x, s) ==
  IF s = <<>> THEN <<x>>
  ELSE IF x.value > Head(s).value \/ (~stable_sort /\ x.value = Head(s).value)
       THEN <<x>> \o s
       ELSE <<Head(s)>> \o InsertDesc(x, Tail(s))

\* faulty variant: the entries left in the order of the grouping
Unsorted(s) == s

RECURSIVE SortDesc(_)
SortDesc(s) ==
  IF s = <<>> THEN <<>>
  ELSE InsertDesc(s[Len(s)], SortDesc(SubSeq(s, 1, Len(s) - 1)))

get_spending_distribution(self, by) ==
  IF NoData(self) THEN [data |-> self, out |-> Err(EmptyDataError)]
  ELSE IF by \notin self.columns
       THEN [data |-> self, out |-> Err(SchemaError)]
       ELSE [data |-> self, out |-> Ok(SortDesc(GroupSums(self.rows, by)))]

\* faulty variant: one entry more than asked for
SeriesHeadOneMore(s, n) ==
  IF n >= 0 THEN SubSeq(s, 1, IF n + 1 < Len(s) THEN n + 1 ELSE Len(s))
  ELSE SubSeq(s, 1, IF Len(s) + n > 0 THEN Len(s) + n ELSE 0)

\* Series.head(n): the first n entries, all but the last -n when n < 0
SeriesHead(s, n) ==
  IF n >= 0 THEN SubSeq(s, 1, IF n < Len(s) THEN n ELSE Len(s))
  ELSE SubSeq(s, 1, IF Len(s) + n > 0 THEN Len(s) + n ELSE 0)

get_top_spending_categories(self, n) ==
  IF NoData(self) THEN [data |-> self, out |-> Err(EmptyDataError)]
  ELSE LET d == get_spending_distribution(self, "category")
       IN  IF d.out.status = "error" THEN d
           ELSE [data |-> d.data, out |-> Ok(SeriesHead(d.out.value, n))]

ZeroDivisionError == "ZeroDivisionError: integer division or modulo by zero"
LengthMismatch    == "ValueError: Length of values does not match length of index"

\* faulty variant: the quotient rounded up
CeilDiv(a, b) ==
  IF b > 0 THEN (a + b - 1) \div b ELSE 0 - (a \div (0 - b))

\* faulty variant: the quotient rounded toward zero
TruncDiv(a, b) ==
  IF b > 0 THEN a \div b ELSE 0 - (a \div (0 - b))

\* Python's a // b for a >= 0 and b # 0 (rounds toward minus infinity)
FloorDiv(a, b) ==
  IF b > 0 THEN a \div b ELSE 0 - ((a + (0 - b) - 1) \div (0 - b))

\* faulty variant: the last band as long as the others, the rest unlabelled
RECURSIVE SegmentLabelsEqualBands(_, _, _, _)
SegmentLabelsEqualBands(i, n_segments, segment_size, len) ==
  IF i >= n_segments THEN <<>>
  ELSE [k \in 1..segment_size |-> i + 1]
       \o SegmentLabelsEqualBands(i + 1, n_segments, segment_size, len)

\* the loop of segment_customers from iteration i on: the labels appended
RECURSIVE SegmentLabels(_, _, _, _)
SegmentLabels(i, n_segments, segment_size, len) ==
  IF i >= n_segments THEN <<>>
  ELSE LET start_idx == i * segment_size
           end_idx   == IF i < n_segments - 1 THEN (i + 1) * segment_size ELSE len
       IN  [k \in 1..(IF end_idx > start_idx THEN end_idx - start_idx ELSE 0) |-> i + 1]
           \o SegmentLabels(i + 1, n_segments, segment_size, len)

\* faulty variant: a segment size of 0 is used as it is
SegmentNoFallback(self, n_segments) ==
  IF NoData(self) THEN [data |-> self, out |-> Err(EmptyDataError)]
  ELSE
    LET customer_spending == SortDesc(GroupSums(self.rows, "customer_id"))
        len == Len(customer_spending)
    IN  IF n_segments = 0 THEN [data |-> self, out |-> Err(ZeroDivisionError)]
        ELSE
          LET segments == SegmentLabels(0, n_segments, FloorDiv(len, n_segments), len)
          IN  IF Len(segments) # len
              THEN [data |-> self, out |-> Err(LengthMismatch)]
              ELSE [data |-> self,
                    out |-> Ok([i \in 1..len |->
                                  [customer_id |-> customer_spending[i].key,
                                   amount |-> customer_spending[i].value,
                                   segment |-> segments[i]]])]

segment_customers(self, n_segments) ==
  IF NoData(self) THEN [data |-> self, out |-> Err(EmptyDataError)]
  ELSE
    LET customer_spending == SortDesc(GroupSums(self.rows, "customer_id"))
        len == Len(customer_spending)
    IN  IF n_segments = 0 THEN [data |-> self, out |-> Err(ZeroDivisionError)]
        ELSE
          LET size0 == FloorDiv(len, n_segments)
              segment_size == IF size0 = 0 THEN 1 ELSE size0
              n == IF size0 = 0 THEN len ELSE n_segments
              segments == SegmentLabels(0, n, segment_size, len)
          IN  IF Len(segments) # len
              THEN [data |-> self, out |-> Err(LengthMismatch)]
              ELSE [data |-> self,
                    out |-> Ok([i \in 1..len |->
                                  [customer_id |-> customer_spending[i].key,
                                   amount |-> customer_spending[i].value,
                                   segment |-> segments[i]]])]

---------------------------------------------------------------------------
(* Customer metrics and category correlation *)

TypeError == "TypeError: unsupported operand type(s) for -: 'str' and 'str'"

DaysOf(rows) == {Day(rows[i].date) : i \in 1..Len(rows)}

\* faulty variant: the frequency divides by days_active also when it is 0
MetricsRowDivides(key, rows) ==
  LET a    == AmountsOf(rows)
      dmin == SetMin(DaysOf(rows))
      dmax == SetMax(DaysOf(rows))
  IN  [customer_id |-> key, amount_count |-> Len(a), amount_sum |-> SumSeq(a),
       amount_mean |-> Mean(a), amount_median |-> Median(a), amount_std |-> Std(a),
       date_min |-> <<dmin>>, date_max |-> <<dmax>>, days_active |-> dmax - dmin,
       frequency |-> <<Len(a), dmax - dmin>>]

\* one row of groupby('customer_id').agg(...) with days_active and frequency
MetricsRow(key, rows) ==
  LET a    == AmountsOf(rows)
      dmin == SetMin(DaysOf(rows))
      dmax == SetMax(DaysOf(rows))
      days == dmax - dmin
  IN  [customer_id |-> key, amount_count |-> Len(a), amount_sum |-> SumSeq(a),
       amount_mean |-> Mean(a), amount_median |-> Median(a), amount_std |-> Std(a),
       date_min |-> <<dmin>>, date_max |-> <<dmax>>, days_active |-> days,
       frequency |-> IF days > 0 THEN <<Len(a), days>> ELSE <<Len(a), 1>>]

calculate_customer_metrics(self) ==
  IF NoData(self) THEN [data |-> self, out |-> Err(EmptyDataError)]
  ELSE IF self.date_dtype # "datetime64"
       THEN [data |-> self, out |-> Err(TypeError)]
       ELSE LET keys == KeysOf(self.rows, "customer_id")
            IN  [data |-> self,
                 out |-> Ok([i \in 1..Len(keys) |->
                               MetricsRow(keys[i], RowsWhere(self.rows, "customer_id", keys[i]))])]

\* faulty variant: a cell counts the records of the pair (aggfunc='count')
PivotCount(rows) ==
  LET custs == KeysOf(rows, "customer_id")
      cats  == KeysOf(rows, "category")
  IN  [index |-> custs, columns |-> cats,
       cells |-> [i \in 1..Len(custs) |-> [j \in 1..Len(cats) |->
                    SumSeq([r \in 1..Len(rows) |->
                              IF rows[r].customer_id = custs[i] /\ rows[r].category = cats[j]
                              THEN 1 ELSE 0])]]]

\* pivot_table(index='customer_id', columns='category', values='amount',
\* aggfunc='sum', fill_value=0): cells[i][j] for customer i and category j
PivotTable(rows) ==
  LET custs == KeysOf(rows, "customer_id")
      cats  == KeysOf(rows, "category")
      present(i, j) == \E r \in 1..Len(rows) :
                          rows[r].customer_id = custs[i] /\ rows[r].category = cats[j]
  IN  [index |-> custs, columns |-> cats,
       cells |-> [i \in 1..Len(custs) |-> [j \in 1..Len(cats) |->
                    IF present(i, j)
                    THEN SumSeq([r \in 1..Len(rows) |->
                                   IF rows[r].customer_id = custs[i] /\ rows[r].category = cats[j]
                                   THEN rows[r].amount ELSE 0])
                    ELSE 0]]]

\* faulty variant: only the variance of column a decides whether the entry is NaN
PearsonRowOnly(pv, a, b) ==
  LET n   == Len(pv.index)
      x   == [i \in 1..n |-> pv.cells[i][a]]
      y   == [i \in 1..n |-> pv.cells[i][b]]
      sx  == SumSeq(x)
      sy  == SumSeq(y)
      cov == n * SumSeq([i \in 1..n |-> x[i] * y[i]]) - sx * sy
      vx  == n * SumSeq([i \in 1..n |-> x[i] * x[i]]) - sx * sx
      vy  == n * SumSeq([i \in 1..n |-> y[i] * y[i]]) - sy * sy
  IN  IF vx = 0 THEN NaN ELSE <<cov, vx, vy>>

\* faulty variant: the covariance scaled by the variance of column a alone
PearsonOneSided(pv, a, b) ==
  LET n   == Len(pv.index)
      x   == [i \in 1..n |-> pv.cells[i][a]]
      y   == [i \in 1..n |-> pv.cells[i][b]]
      sx  == SumSeq(x)
      sy  == SumSeq(y)
      cov == n * SumSeq([i \in 1..n |-> x[i] * y[i]]) - sx * sy
      vx  == n * SumSeq([i \in 1..n |-> x[i] * x[i]]) - sx * sx
      vy  == n * SumSeq([i \in 1..n |-> y[i] * y[i]]) - sy * sy
  IN  IF vx = 0 \/ vy = 0 THEN NaN ELSE <<cov, vx, vx>>

\* Pearson correlation of columns a and b of the pivot: NaN when either has
\* no variance, else [cov, var_a, var_b], standing for cov / sqrt(var_a * var_b)
\* (each scaled by the square of the number of customers)
Pearson(pv, a, b) ==
  LET n   == Len(pv.index)
      x   == [i \in 1..n |-> pv.cells[i][a]]
      y   == [i \in 1..n |-> pv.cells[i][b]]
      sx  == SumSeq(x)
      sy  == SumSeq(y)
      cov == n * SumSeq([i \in 1..n |-> x[i] * y[i]]) - sx * sy
      vx  == n * SumSeq([i \in 1..n |-> x[i] * x[i]]) - sx * sx
      vy  == n * SumSeq([i \in 1..n |-> y[i] * y[i]]) - sy * sy
  IN  IF vx = 0 \/ vy = 0 THEN NaN ELSE <<cov, vx, vy>>

get_category_correlation(self) ==
  IF NoData(self) THEN [data |-> self, out |-> Err(EmptyDataError)]
  ELSE LET pv == PivotTable(self.rows)
           m  == Len(pv.columns)
       IN  [data |-> self,
            out |-> Ok([columns |-> pv.columns,
                        cells |-> [a \in 1..m |-> [b \in 1..m |-> Pearson(pv, a, b)]]])]

---------------------------------------------------------------------------
(* The analyzer *)

Call(op, args, r) ==
  /\ pre' = data
  /\ data' = r.data
  /\ last' = [op |-> op, args |-> args, out |-> r.out]
  /\ UNCHANGED <<given, stable_sort, loader, loader_pre>>

Init ==
  /\ given \in Tables \cup {None}
  /\ data = given
  /\ pre = given
  /\ last = [op |-> "__init__", args |-> <<>>, out |-> Ok(<<>>)]
  /\ stable_sort \in BOOLEAN
  /\ loader = NewLoader
  /\ loader_pre = NewLoader

SetData ==
  \E t \in SetTables \cup {None} :
    /\ data' = t
    /\ given' = t
    /\ pre' = t
    /\ last' = [op |-> "set_data", args |-> <<>>, out |-> Ok(<<>>)]
    /\ UNCHANGED <<stable_sort, loader, loader_pre>>

GetSummaryStatistics ==
  \E g \in GroupArgs :
    Call("get_summary_statistics", <<g>>, get_summary_statistics(data, g))

AnalyzeTimeSeries ==
  \E f \in FreqArgs, g \in GroupArgs :
    Call("analyze_time_series", <<f, g>>, analyze_time_series(data, f, g))

GetSpendingDistribution ==
  \E by \in GroupArgs \ {NoArg} :
    Call("get_spending_distribution", <<by>>, get_spending_distribution(data, by))

GetTopSpendingCategories ==
  \E n \in CountArgs :
    Call("get_top_spending_categories", <<n>>, get_top_spending_categories(data, n))

SegmentCustomers ==
  \E n \in CountArgs :
    Call("segment_customers", <<n>>, segment_customers(data, n))

CalculateCustomerMetrics ==
  Call("calculate_customer_metrics", <<>>, calculate_customer_metrics(data))

GetCategoryCorrelation ==
  Call("get_category_correlation", <<>>, get_category_correlation(data))

Next ==
  \/ SetData
  \/ GetSummaryStatistics
  \/ AnalyzeTimeSeries
  \/ GetSpendingDistribution
  \/ GetTopSpendingCategories
  \/ SegmentCustomers
  \/ CalculateCustomerMetrics
  \/ GetCategoryCorrelation

Spec == Init /\ [][Next]_vars

---------------------------------------------------------------------------
(* The category correlation over tables of three categories *)

MaxCorrRows == 4

\* records of three categories and two customers: both customers spend the
\* same in category 3
CorrPool ==
  { Row(<<2023, 1, 1>>, 1, 1, 1),
    Row(<<2023, 1, 2>>, 2, 2, 2),
    Row(<<2023, 1, 2>>, 2, 3, 1),
    Row(<<2023, 1, 3>>, 3, 1, 1),
    Row(<<2023, 1, 3>>, 3, 1, 2) }

CorrTables ==
  { ObjectTable(r) : r \in UNION { [1..n -> CorrPool] : n \in 0..MaxCorrRows } }

CorrInit ==
  /\ given \in CorrTables
  /\ data = given
  /\ pre = given
  /\ last = [op |-> "__init__", args |-> <<>>, out |-> Ok(<<>>)]
  /\ stable_sort \in BOOLEAN
  /\ loader = NewLoader
  /\ loader_pre = NewLoader

CorrNext == GetCategoryCorrelation

CorrSpec == CorrInit /\ [][CorrNext]_vars

---------------------------------------------------------------------------
(* The operations built on groupby(...)['amount'].sum() over tables with
   missing cells *)

MaxDirtyRows == 3

\* a row with the set m of its columns missing; a missing cell holds 0
NullRow(d, c, a, k, m) ==
  [date |-> d, category |-> c, amount |-> a, customer_id |-> k, missing |-> m]

\* records with every cell present, one without amount, one without category
DirtyPool ==
  { NullRow(<<2023, 1, 1>>, 1, 1, 1, {}),
    NullRow(<<2023, 1, 2>>, 2, 2, 2, {}),
    NullRow(<<2023, 1, 3>>, 1, 0, 1, {"amount"}),
    NullRow(<<2023, 1, 4>>, 0, 3, 2, {"category"}) }

DirtyTables ==
  { ObjectTable(r) : r \in UNION { [1..n -> DirtyPool] : n \in 0..MaxDirtyRows } }

DirtyInit ==
  /\ given \in DirtyTables
  /\ data = given
  /\ pre = given
  /\ last = [op |-> "__init__", args |-> <<>>, out |-> Ok(<<>>)]
  /\ stable_sort \in BOOLEAN
  /\ loader = NewLoader
  /\ loader_pre = NewLoader

DirtyNext ==
  \/ GetSpendingDistribution
  \/ GetTopSpendingCategories
  \/ SegmentCustomers

DirtySpec == DirtyInit /\ [][DirtyNext]_vars

---------------------------------------------------------------------------
(* DataLoader (src/src/data_loader.py) *)

MaxFileRows == 2

\* A path stands for the file it names: no file, or a CSV file with its
\* header and its records (every cell present, the dates as strings).
MissingFile == [exists |-> FALSE, columns |-> {}, rows |-> <<>>]

CsvFile(cols, rows) == [exists |-> TRUE, columns |-> cols, rows |-> rows]

\* a file without the customer_id column
PartialFile ==
  CsvFile({"date", "category", "amount"},
          <<[date |-> <<2023, 1, 1>>, category |-> 1, amount |-> 1]>>)

\* a file with the header only
HeaderOnlyFile == CsvFile(Columns, <<>>)

FilePaths ==
  {MissingFile, PartialFile, HeaderOnlyFile}
    \cup { CsvFile(Columns, r) : r \in UNION { [1..n -> RowPool] : n \in 1..MaxFileRows } }

FileNotFoundError   == "FileNotFoundError: File not found"
MissingColumnsError == "ValueError: Missing required columns"
NotLoadedError      == "ValueError: No data loaded. Call load_data() first."
ModeKeyError        == "KeyError: 0"
ColumnKeyError      == "KeyError: column"
CompareTypeError    == "TypeError: not supported between instances of 'str' and 'Timestamp'"

\* _clean_data on a table with every cell present: the dates are parsed and
\* nothing is filled; category.mode()[0] fails on a table without rows, after
\* the dates were parsed
clean_data(t) ==
  IF Len(t.rows) = 0
  THEN [data |-> ConvertDates(t), out |-> Err(ModeKeyError)]
  ELSE [data |-> ConvertDates(t), out |-> Ok(ConvertDates(t))]

\* faulty variant: the table is returned without the check of its columns
LoadUnvalidated(self, file_path) ==
  IF ~file_path.exists THEN [self |-> self, out |-> Err(FileNotFoundError)]
  ELSE LET read == [columns |-> file_path.columns, date_dtype |-> "object",
                    rows |-> file_path.rows]
       IN  [self |-> [data |-> read, file_path |-> file_path], out |-> Ok(read)]

\* load_data: read_csv, then self.data and self.file_path are assigned, then
\* the columns are validated and the data cleaned
load_data(self, file_path) ==
  IF ~file_path.exists THEN [self |-> self, out |-> Err(FileNotFoundError)]
  ELSE LET read == [columns |-> file_path.columns, date_dtype |-> "object",
                    rows |-> file_path.rows]
       IN  IF ~(Columns \subseteq read.columns)
           THEN [self |-> [data |-> read, file_path |-> file_path],
                 out |-> Err(MissingColumnsError)]
           ELSE LET cleaned == clean_data(read)
                IN  [self |-> [data |-> cleaned.data, file_path |-> file_path],
                     out |-> IF cleaned.out.status = "error" THEN cleaned.out
                             ELSE Ok(cleaned.data)]

\* no date argument given (None)
NoDate == <<>>

DateArgs == {NoDate, <<2023, 1, 1>>, <<2023, 1, 2>>}

\* filter_by_date_range: a copy of the rows from start_date to end_date,
\* both inclusive; the comparison needs a parsed date column
filter_by_date_range(self, start_date, end_date) ==
  IF self.data = None THEN [self |-> self, out |-> Err(NotLoadedError)]
  ELSE IF start_date = NoDate /\ end_date = NoDate
       THEN [self |-> self, out |-> Ok(self.data)]
       ELSE IF self.data.date_dtype # "datetime64"
            THEN [self |-> self, out |-> Err(CompareTypeError)]
            ELSE LET keep(r) ==
                       /\ start_date # NoDate => Day(r.date) >= Day(ToDatetime(start_date))
                       /\ end_date # NoDate => Day(r.date) <= Day(ToDatetime(end_date))
                 IN  [self |-> self,
                      out |-> Ok([self.data EXCEPT !.rows = SelectSeq(self.data.rows, keep)])]

\* self.data[self.data[col].isin(values)]
FilterIsIn(self, col, values) ==
  IF self.data = None THEN [self |-> self, out |-> Err(NotLoadedError)]
  ELSE IF col \notin self.data.columns
       THEN [self |-> self, out |-> Err(ColumnKeyError)]
       ELSE [self |-> self,
             out |-> Ok([self.data EXCEPT
                           !.rows = SelectSeq(self.data.rows, LAMBDA r : r[col] \in values)])]

filter_by_category(self, categories) == FilterIsIn(self, "category", categories)

filter_by_customer(self, customer_ids) == FilterIsIn(self, "customer_id", customer_ids)

\* Series.unique(): the values in the order of their first row
RECURSIVE Unique(_, _)
Unique(rows, col) ==
  IF rows = <<>> THEN <<>>
  ELSE LET init == Unique(SubSeq(rows, 1, Len(rows) - 1), col)
           k    == rows[Len(rows)][col]
       IN  IF k \in Range(init) THEN init ELSE Append(init, k)

\* self.data[col].unique().tolist()
UniqueOf(self, col) ==
  IF self.data = None THEN [self |-> self, out |-> Err(NotLoadedError)]
  ELSE IF col \notin self.data.columns
       THEN [self |-> self, out |-> Err(ColumnKeyError)]
       ELSE [self |-> self, out |-> Ok(Unique(self.data.rows, col))]

get_unique_categories(self) == UniqueOf(self, "category")

get_unique_customers(self) == UniqueOf(self, "customer_id")

\* the order of two date cells of one column: parsed dates by their day,
\* strings in ISO format by year, month and day
DateLeq(a, b) ==
  IF Len(a) = 1 THEN a[1] <= b[1]
  ELSE \/ a[1] < b[1]
       \/ a[1] = b[1] /\ a[2] < b[2]
       \/ a[1] = b[1] /\ a[2] = b[2] /\ a[3] <= b[3]

\* get_date_range: (min, max) of the date column, NaT (NaN) without rows
get_date_range(self) ==
  IF self.data = None THEN [self |-> self, out |-> Err(NotLoadedError)]
  ELSE LET dates == {self.data.rows[i].date : i \in 1..Len(self.data.rows)}
       IN  IF dates = {} THEN [self |-> self, out |-> Ok(<<NaN, NaN>>)]
           ELSE [self |-> self,
                 out |-> Ok(<<CHOOSE d \in dates : \A e \in dates : DateLeq(d, e),
                              CHOOSE d \in dates : \A e \in dates : DateLeq(e, d)>>)]

LoaderCall(op, args, r) ==
  /\ loader_pre' = loader
  /\ loader' = r.self
  /\ last' = [op |-> op, args |-> args, out |-> r.out]
  /\ UNCHANGED <<data, given, pre, stable_sort>>

LoaderInit ==
  /\ loader = NewLoader
  /\ loader_pre = NewLoader
  /\ data = None
  /\ given = None
  /\ pre = None
  /\ last = [op |-> "__init__", args |-> <<>>, out |-> Ok(<<>>)]
  /\ stable_sort \in BOOLEAN

LoadData ==
  \E f \in FilePaths : LoaderCall("load_data", <<f>>, load_data(loader, f))

FilterByDateRange ==
  \E s \in DateArgs, e \in DateArgs :
    LoaderCall("filter_by_date_range", <<s, e>>, filter_by_date_range(loader, s, e))

FilterByCategory ==
  \E c \in {{1}, {2}, {1, 2}} :
    LoaderCall("filter_by_category", <<c>>, filter_by_category(loader, c))

FilterByCustomer ==
  \E k \in {{1}, {3}, {1, 2}} :
    LoaderCall("filter_by_customer", <<k>>, filter_by_customer(loader, k))

GetUniqueCategories ==
  LoaderCall("get_unique_categories", <<>>, get_unique_categories(loader))

GetUniqueCustomers ==
  LoaderCall("get_unique_customers", <<>>, get_unique_customers(loader))

GetDateRange ==
  LoaderCall("get_date_range", <<>>, get_date_range(loader))

LoaderNext ==
  \/ LoadData
  \/ FilterByDateRange
  \/ FilterByCategory
  \/ FilterByCustomer
  \/ GetUniqueCategories
  \/ GetUniqueCustomers
  \/ GetDateRange

LoaderSpec == LoaderInit /\ [][LoaderNext]_vars

---------------------------------------------------------------------------
(* The command-line flow (src/main.py) *)

\* --category and --customer: not given (None) or one label; the loader's
\* filter turns the label into a list of one value
NoFilter == {}

FilterArgs == {NoFilter, {1}, {2}}

Analyses ==
  {"summary", "time-series", "distribution", "top-categories",
   "customer-segments", "customer-metrics", "correlation"}

\* the parsed arguments; --groupby, --frequency and --n-top keep their defaults
CliArgs ==
  [start_date : DateArgs, end_date : DateArgs, category : FilterArgs,
   customer : FilterArgs, analysis : Analyses, groupby : {NoArg},
   frequency : {"M"}, n_top : {5}]

\* one optional filter of main: when it is given, data is bound to the
\* filter's result and the number of its rows is printed
ApplyFilter(st, isGiven, r, name) ==
  IF st.out.status = "error" \/ ~isGiven THEN st
  ELSE IF r.out.status = "error" THEN [st EXCEPT !.out = r.out]
       ELSE [st EXCEPT !.data = r.out.value,
                       !.printed = Append(@, [filter |-> name,
                                              rows |-> Len(r.out.value.rows)])]

\* the analysis chosen by --analysis, called on the analyzer's table
Analysis(t, args) ==
  CASE args.analysis = "summary"           -> get_summary_statistics(t, args.groupby)
    [] args.analysis = "time-series"       -> analyze_time_series(t, args.frequency, args.groupby)
    [] args.analysis = "distribution"      ->
         get_spending_distribution(t, IF args.groupby = NoArg THEN "category"
                                      ELSE args.groupby)
    [] args.analysis = "top-categories"    -> get_top_spending_categories(t, args.n_top)
    [] args.analysis = "customer-segments" -> segment_customers(t, 3)
    [] args.analysis = "customer-metrics"  -> calculate_customer_metrics(t)
    [] args.analysis = "correlation"       -> get_category_correlation(t)

\* data after load_data: the table returned, and nothing printed by a filter
Loaded(loaded) ==
  [data |-> IF loaded.out.status = "ok" THEN loaded.out.value ELSE None,
   printed |-> <<>>, out |-> loaded.out]

\* the three optional filters in the order of main, each called on the loader
Filtered(ldr, st, args) ==
  ApplyFilter(
    ApplyFilter(
      ApplyFilter(st, args.start_date # NoDate \/ args.end_date # NoDate,
                  filter_by_date_range(ldr, args.start_date, args.end_date),
                  "date range"),
      args.category # NoFilter, filter_by_category(ldr, args.category), "category"),
    args.customer # NoFilter, filter_by_customer(ldr, args.customer), "customer")

\* analyzer = DataAnalyzer(data), then the results of the analysis
Analyzed(ldr, st, results) ==
  [loader |-> ldr, handed |-> st.data, analyzer |-> results.data,
   printed |-> st.printed, out |-> results.out]

\* the analysis on the filtered data, unless an exception ended the run
Finish(ldr, st, args) ==
  IF st.out.status = "error"
  THEN [loader |-> ldr, handed |-> None, analyzer |-> None,
        printed |-> st.printed, out |-> st.out]
  ELSE Analyzed(ldr, st, Analysis(st.data, args))

\* the run after loader.load_data(args.file)
AfterLoad(loaded, args) ==
  Finish(loaded.self, Filtered(loaded.self, Loaded(loaded), args), args)

\* main up to the analysis results: a new loader loads the file, each filter
\* that is given is called on the loader, the analyzer is built on data and
\* the analysis runs; any exception ends the run
main(file, args) == AfterLoad(load_data(NewLoader, file), args)

\* the state after a run of main
Ran(f, a, run) ==
  /\ loader_pre' = NewLoader
  /\ loader' = run.loader
  /\ given' = run.handed
  /\ pre' = run.handed
  /\ data' = run.analyzer
  /\ last' = [op |-> "main", args |-> <<f, a>>, out |-> run.out,
              printed |-> run.printed]
  /\ UNCHANGED stable_sort

\* one run of the program: main is entered once, when the process starts
Main ==
  /\ last.op = "__init__"
  /\ \E f \in FilePaths, a \in CliArgs : Ran(f, a, main(f, a))

CliInit == LoaderInit

CliNext == Main

CliSpec == CliInit /\ [][CliNext]_vars

---------------------------------------------------------------------------
(* Properties *)

AnalysisOps == {"get_summary_statistics", "analyze_time_series",
                "get_spending_distribution", "get_top_spending_categories",
                "segment_customers", "calculate_customer_metrics",
                "get_category_correlation"}

\* the outcome of call op(args) on an analyzer holding table t
Outcome(t, op, args) ==
  CASE op = "get_summary_statistics"      -> get_summary_statistics(t, args[1]).out
    [] op = "analyze_time_series"         -> analyze_time_series(t, args[1], args[2]).out
    [] op = "get_spending_distribution"   -> get_spending_distribution(t, args[1]).out
    [] op = "get_top_spending_categories" -> get_top_spending_categories(t, args[1]).out
    [] op = "segment_customers"           -> segment_customers(t, args[1]).out
    [] op = "calculate_customer_metrics"  -> calculate_customer_metrics(t).out
    [] op = "get_category_correlation"    -> get_category_correlation(t).out

Returned == last.out.status = "ok"

\* the group column argument of the last call (NoArg when it takes none)
GroupArgOfLast ==
  CASE last.op = "get_summary_statistics"    -> last.args[1]
    [] last.op = "analyze_time_series"       -> last.args[2]
    [] last.op = "get_spending_distribution" -> last.args[1]
    [] OTHER -> NoArg

\* the rows of pre whose column col holds key, as a set of row numbers
RowsOfKey(col, key) == {i \in 1..Len(pre.rows) : pre.rows[i][col] = key}

\* the sum of the amounts of the rows of pre numbered in I
RECURSIVE AmountOver(_)
AmountOver(I) ==
  IF I = {} THEN 0
  ELSE LET i == CHOOSE j \in I : TRUE IN pre.rows[i].amount + AmountOver(I \ {i})

\* C1: every analysis operation called while the table is unset or has no
\* rows fails with the empty-data error, whatever its other arguments.
C1_EmptyDataError ==
  (last.op \in AnalysisOps /\ NoData(pre)) => last.out = Err(EmptyDataError)

C1_Witness ==
  /\ last.op = "analyze_time_series"
  /\ last.args[2] = "region"
  /\ pre # None
  /\ Len(pre.rows) = 0
  /\ last.out = Err(EmptyDataError)

\* C2: on a non-empty table, summary, resample and distribution fail with
\* the schema error when the column they are given is not a column of the
\* table.
C2_SchemaError ==
  (/\ last.op \in {"get_summary_statistics", "analyze_time_series",
                   "get_spending_distribution"}
   /\ ~NoData(pre)
   /\ GroupArgOfLast # NoArg
   /\ GroupArgOfLast \notin pre.columns)
  => last.out = Err(SchemaError)

C2_Witness ==
  /\ last.op = "analyze_time_series"
  /\ last.args = <<"X", "region">>
  /\ ~NoData(pre)
  /\ last.out = Err(SchemaError)

\* C3: no analysis operation changes the table the analyzer holds (rows,
\* columns, the value and type of every cell), whether it returns or fails.
C3_TableUnchanged ==
  last.op \in AnalysisOps => data = pre

\* C4: the outcome of an analysis call is the outcome of the same call on a
\* fresh analyzer constructed with the table most recently set.
C4_Stateless ==
  last.op \in AnalysisOps => last.out = Outcome(given, last.op, last.args)

\* C5: the ungrouped summary's count is the number of rows; the grouped
\* summary's counts add up to the number of rows and its sums to the total
\* amount of the table.
C5_SummaryReconciles ==
  (last.op = "get_summary_statistics" /\ ~NoData(pre)) =>
     /\ last.args[1] = NoArg =>
          /\ Returned
          /\ last.out.value.count = Len(pre.rows)
     /\ last.args[1] \in pre.columns =>
          /\ Returned
          /\ SumSeq([i \in 1..Len(last.out.value) |-> last.out.value[i].count])
               = Len(pre.rows)
          /\ SumSeq([i \in 1..Len(last.out.value) |-> last.out.value[i].sum])
               = AmountOver(1..Len(pre.rows))

C5_Witness ==
  /\ last.op = "get_summary_statistics"
  /\ last.args[1] = "category"
  /\ Returned
  /\ Len(pre.rows) = 3
  /\ Len(last.out.value) = 2

\* the amounts of the rows of pre numbered in I
AmountsIn(I) == {pre.rows[i].amount : i \in I}

\* v is the k-th smallest amount among the rows numbered in I
OrderStat(I, k, v) ==
  /\ Cardinality({i \in I : pre.rows[i].amount < v}) < k
  /\ k <= Cardinality({i \in I : pre.rows[i].amount <= v})

\* the sum over the rows numbered in J of (n * amount - s)^2
RECURSIVE SqDevOver(_, _, _)
SqDevOver(J, n, s) ==
  IF J = {} THEN 0
  ELSE LET i == CHOOSE j \in J : TRUE
           d == n * pre.rows[i].amount - s
       IN  d * d + SqDevOver(J \ {i}, n, s)

\* r carries the statistics of exactly the rows numbered in I
StatsOver(r, I) ==
  LET n == Cardinality(I)
      s == AmountOver(I)
  IN  /\ r.count = n
      /\ r.sum = s
      /\ r.mean[2] # 0 /\ r.mean[1] * n = s * r.mean[2]
      /\ r.min \in AmountsIn(I) /\ \A a \in AmountsIn(I) : r.min <= a
      /\ r.max \in AmountsIn(I) /\ \A a \in AmountsIn(I) : r.max >= a
      /\ \E lo \in AmountsIn(I), hi \in AmountsIn(I) :
            /\ OrderStat(I, (n + 1) \div 2, lo)
            /\ OrderStat(I, n \div 2 + 1, hi)
            /\ r.median[2] # 0 /\ 2 * r.median[1] = (lo + hi) * r.median[2]
      /\ IF n = 1 THEN r.std = NaN
         ELSE /\ r.std # NaN
              /\ r.std[2] # 0
              /\ r.std[1] * (n * n * (n - 1)) = SqDevOver(I, n, s) * r.std[2]

\* C6: the grouped summary has one row per distinct value of the group
\* column, in the sort order of the values, each row with the statistics
\* of exactly the rows of its partition.
C6_GroupedSummary ==
  (/\ last.op = "get_summary_statistics"
   /\ ~NoData(pre)
   /\ last.args[1] \in pre.columns)
  => LET v   == last.out.value
         col == last.args[1]
     IN  /\ Returned
         /\ {v[i].key : i \in 1..Len(v)} = {pre.rows[j][col] : j \in 1..Len(pre.rows)}
         /\ \A i \in 1..Len(v), j \in 1..Len(v) : i < j => v[i].key < v[j].key
         /\ \A i \in 1..Len(v) : StatsOver(v[i], RowsOfKey(col, v[i].key))

\* a table whose groups are first seen in another order than the sort order
C6_Witness ==
  /\ last.op = "get_summary_statistics"
  /\ last.args[1] = "category"
  /\ Returned
  /\ Len(pre.rows) = 3
  /\ pre.rows[1].category > pre.rows[2].category
  /\ pre.rows[3].category = pre.rows[2].category
  /\ pre.rows[3].amount # pre.rows[2].amount

\* C7: in summary and customer metrics a partition (or table) of one row
\* has a NaN standard deviation and the operation returns a row for every
\* partition; customer metrics fails on a non-empty table only when the
\* dates are strings, whatever the sizes of the partitions.
C7_SingleRowStd ==
  /\ (/\ last.op = "get_summary_statistics"
      /\ ~NoData(pre)
      /\ last.args[1] \in pre.columns \cup {NoArg})
     => /\ Returned
        /\ last.args[1] = NoArg =>
             (Len(pre.rows) = 1 <=> last.out.value.std = NaN)
        /\ last.args[1] # NoArg =>
             LET v == last.out.value
             IN  /\ Len(v) = Cardinality({pre.rows[j][last.args[1]] : j \in 1..Len(pre.rows)})
                 /\ \A i \in 1..Len(v) :
                       Cardinality(RowsOfKey(last.args[1], v[i].key)) = 1
                         <=> v[i].std = NaN
  /\ (last.op = "calculate_customer_metrics" /\ ~NoData(pre))
     => /\ Returned <=> pre.date_dtype = "datetime64"
        /\ Returned =>
             LET v == last.out.value
             IN  /\ Len(v) = Cardinality({pre.rows[j].customer_id : j \in 1..Len(pre.rows)})
                 /\ \A i \in 1..Len(v) :
                       Cardinality(RowsOfKey("customer_id", v[i].customer_id)) = 1
                         <=> v[i].amount_std = NaN

\* customer metrics of a table with a one-row customer and a two-row customer
C7_Witness ==
  /\ last.op = "calculate_customer_metrics"
  /\ Returned
  /\ \E i \in 1..Len(last.out.value) :
        last.out.value[i].amount_count = 1 /\ last.out.value[i].amount_std = NaN
  /\ \E i \in 1..Len(last.out.value) :
        last.out.value[i].amount_count = 2 /\ last.out.value[i].amount_std # NaN

\* the day of row i of the table (the dates parsed, as data holds them
\* after a resample)
DayOfRow(i) == Day(data.rows[i].date)

\* day k is the last day of the period of frequency f that holds day d
EndOfPeriod(f, d, k) ==
  LET cd == CivilFromDays(d)
      ck == CivilFromDays(k)
      cn == CivilFromDays(k + 1)
  IN  CASE f = "D" -> k = d
        [] f = "W" -> Weekday(k) = 6 /\ d <= k /\ k <= d + 6
        [] f = "M" -> ck[1] = cd[1] /\ ck[2] = cd[2] /\ cn[3] = 1
        [] f = "Q" -> /\ ck[1] = cd[1]
                      /\ (ck[2] - 1) \div 3 = (cd[2] - 1) \div 3
                      /\ ck[2] % 3 = 0
                      /\ cn[3] = 1
        [] f = "Y" -> ck = <<cd[1], 12, 31>>

\* day k is the first day of the period of frequency f that holds day d
StartOfPeriod(f, d, k) ==
  LET cd == CivilFromDays(d)
      ck == CivilFromDays(k)
  IN  CASE f = "D" -> k = d
        [] f = "W" -> Weekday(k) = 0 /\ k <= d /\ d <= k + 6
        [] f = "M" -> ck = <<cd[1], cd[2], 1>>
        [] f = "Q" -> ck = <<cd[1], 3 * ((cd[2] - 1) \div 3) + 1, 1>>
        [] f = "Y" -> ck = <<cd[1], 1, 1>>

ResampleReturned == last.op = "analyze_time_series" /\ Returned

\* day k is the key of the period that holds day d: its last day (at_end)
\* or its first day
KeyOfPeriod(at_end, f, d, k) ==
  IF at_end THEN EndOfPeriod(f, d, k) ELSE StartOfPeriod(f, d, k)

\* The result of the last resample as buckets keyed by the last (at_end) or
\* the first day of their period: every row of the table falls in exactly
\* one bucket, and the value of a bucket (of a group's cell in it, with a
\* group column) is the sum of the amounts of the rows (of that group) in it.
BucketsKeyedBy(at_end) ==
  LET f    == last.args[1]
      col  == last.args[2]
      v    == last.out.value
      rows == 1..Len(pre.rows)
      In(i, key) == KeyOfPeriod(at_end, f, DayOfRow(i), key[1])
  IN  IF col = NoArg
      THEN /\ \A i \in rows : Cardinality({b \in 1..Len(v) : In(i, v[b].key)}) = 1
           /\ \A b \in 1..Len(v) :
                 v[b].value = AmountOver({i \in rows : In(i, v[b].key)})
      ELSE /\ \A i \in rows :
                 Cardinality({b \in 1..Len(v.rows) : In(i, v.rows[b].key)}) = 1
           /\ \A b \in 1..Len(v.rows), k \in 1..Len(v.columns) :
                 LET mine == {i \in rows : /\ pre.rows[i][col] = v.columns[k]
                                           /\ In(i, v.rows[b].key)}
                 IN  mine # {} => v.rows[b].cells[k] = Num(AmountOver(mine))

\* C8 as stated: the key of a record's bucket is the START of its period
\* (the Monday of its week, the 1st of its month, quarter or year).
C8_KeyIsPeriodStart == ResampleReturned => BucketsKeyedBy(FALSE)

\* C8 as amended: every record is in exactly one bucket, whose key is the
\* END of the record's period: the same day for day, the Sunday of its
\* Monday-to-Sunday week, the last day of its month, quarter or year; the
\* bucket's value is the sum of the amounts of its records.
C8_KeyIsPeriodEnd == ResampleReturned => BucketsKeyedBy(TRUE)

\* a weekly resample of a table with a record on a Monday, whose bucket is
\* keyed by the Sunday six days later
C8_Witness ==
  /\ ResampleReturned
  /\ last.args = <<"W", NoArg>>
  /\ \E i \in 1..Len(pre.rows), b \in 1..Len(last.out.value) :
        /\ Weekday(DayOfRow(i)) = 0
        /\ last.out.value[b].key = <<DayOfRow(i) + 6>>
        /\ last.out.value[b].value = pre.rows[i].amount

UngroupedReturned == ResampleReturned /\ last.args[2] = NoArg

\* bucket b of the ungrouped result holds no row of the table
EmptyBucket(b) ==
  \A i \in 1..Len(pre.rows) :
     /\ ~EndOfPeriod(last.args[1], DayOfRow(i), last.out.value[b].key[1])
     /\ ~StartOfPeriod(last.args[1], DayOfRow(i), last.out.value[b].key[1])

\* C9 as stated: every bucket of the ungrouped resample holds a record, and
\* there are as many buckets as distinct periods that hold a record.
C9_NoEmptyBuckets ==
  UngroupedReturned =>
    /\ \A b \in 1..Len(last.out.value) : ~EmptyBucket(b)
    /\ Len(last.out.value)
         = Cardinality({PeriodOf(last.args[1], DayOfRow(i)) : i \in 1..Len(pre.rows)})

\* C9 as amended: the ungrouped resample has one bucket for every period
\* from the period of the earliest record to the period of the latest
\* record, each period following the one before without a gap; a period in
\* that span without a record is a bucket of value 0.
C9_BucketsSpanRange ==
  UngroupedReturned =>
    LET f    == last.args[1]
        v    == last.out.value
        days == {DayOfRow(i) : i \in 1..Len(pre.rows)}
    IN  /\ Len(v) >= 1
        /\ EndOfPeriod(f, SetMin(days), v[1].key[1])
        /\ EndOfPeriod(f, SetMax(days), v[Len(v)].key[1])
        /\ \A b \in 1..(Len(v) - 1) :
              EndOfPeriod(f, v[b].key[1] + 1, v[b + 1].key[1])
        /\ \A b \in 1..Len(v) : EmptyBucket(b) => v[b].value = 0

\* a monthly resample with a month without records between two with records
C9_Witness ==
  /\ UngroupedReturned
  /\ last.args[1] = "M"
  /\ \E b \in 2..(Len(last.out.value) - 1) :
        /\ EmptyBucket(b)
        /\ last.out.value[b].value = 0
        /\ ~EmptyBucket(1)
        /\ ~EmptyBucket(Len(last.out.value))

GroupedReturned == ResampleReturned /\ last.args[2] # NoArg

\* the rows of group number k of the grouped result that fall in bucket b
GroupRowsIn(k, b) ==
  {i \in 1..Len(pre.rows) :
     /\ pre.rows[i][last.args[2]] = last.out.value.columns[k]
     /\ EndOfPeriod(last.args[1], DayOfRow(i), last.out.value.rows[b].key[1])}

\* bucket b lies between the first and the last bucket that hold a row of
\* group number k
InsideGroup(k, b) ==
  /\ \E a \in 1..b : GroupRowsIn(k, a) # {}
  /\ \E c \in b..Len(last.out.value.rows) : GroupRowsIn(k, c) # {}

\* The grouped result has one column per distinct group value and one row
\* per bucket of the union of the groups' own series; a cell is the sum of
\* the amounts of the group's records in the bucket.
GroupedShape ==
  LET f   == last.args[1]
      col == last.args[2]
      v   == last.out.value
      series(key) == Resample(f, RowsWhere(data.rows, col, key))
  IN  /\ Range(v.columns) = {pre.rows[i][col] : i \in 1..Len(pre.rows)}
      /\ Len(v.columns) = Cardinality(Range(v.columns))
      /\ {v.rows[b].key : b \in 1..Len(v.rows)}
           = UNION { {series(key)[j].key : j \in 1..Len(series(key))} :
                     key \in Range(v.columns) }
      /\ \A a \in 1..Len(v.rows), b \in 1..Len(v.rows) :
            a # b => v.rows[a].key # v.rows[b].key
      /\ \A b \in 1..Len(v.rows), k \in 1..Len(v.columns) :
            GroupRowsIn(k, b) # {} =>
              v.rows[b].cells[k] = Num(AmountOver(GroupRowsIn(k, b)))

\* C10 as stated: a bucket in which a group has no record carries the same
\* zero/absent value for that group wherever it lies.
C10_SameValueWhereverEmpty ==
  GroupedReturned =>
    /\ GroupedShape
    /\ \A k \in 1..Len(last.out.value.columns) :
       \A a \in 1..Len(last.out.value.rows), b \in 1..Len(last.out.value.rows) :
          (GroupRowsIn(k, a) = {} /\ GroupRowsIn(k, b) = {})
            => last.out.value.rows[a].cells[k] = last.out.value.rows[b].cells[k]

\* C10 as amended: a bucket in which a group has no record carries 0 when it
\* lies between the group's first and last record, and the absent value
\* (NaN) when it lies before the group's first or after its last record.
C10_ZeroInsideNaNOutside ==
  GroupedReturned =>
    /\ GroupedShape
    /\ \A k \in 1..Len(last.out.value.columns), b \in 1..Len(last.out.value.rows) :
          GroupRowsIn(k, b) = {} =>
            last.out.value.rows[b].cells[k]
              = IF InsideGroup(k, b) THEN Num(0) ELSE NaN

\* a grouped result with a record-less cell of 0 and a record-less NaN cell
C10_Witness ==
  /\ GroupedReturned
  /\ last.args = <<"M", "category">>
  /\ \E k \in 1..Len(last.out.value.columns), b \in 1..Len(last.out.value.rows) :
        GroupRowsIn(k, b) = {} /\ last.out.value.rows[b].cells[k] = Num(0)
  /\ \E k \in 1..Len(last.out.value.columns), b \in 1..Len(last.out.value.rows) :
        GroupRowsIn(k, b) = {} /\ last.out.value.rows[b].cells[k] = NaN

\* the keys (days) of the buckets of the last resample result, in the
\* order of the result
BucketKeys ==
  IF last.args[2] = NoArg
  THEN [b \in 1..Len(last.out.value) |-> last.out.value[b].key[1]]
  ELSE [b \in 1..Len(last.out.value.rows) |-> last.out.value.rows[b].key[1]]

\* the earliest day of the rows of the table whose column col holds key
FirstDayOf(col, key) == SetMin({DayOfRow(i) : i \in RowsOfKey(col, key)})

\* C11: the buckets of a resample result are in strictly increasing
\* chronological order, none repeated, whatever the order of the rows of the
\* table, without and with a group column.
C11_ChronologicalOrder ==
  ResampleReturned =>
    \A b \in 1..(Len(BucketKeys) - 1) : BucketKeys[b] < BucketKeys[b + 1]

\* a grouped resample of a table whose rows are not in date order and whose
\* first group (in column order) starts later than its second group
C11_Witness ==
  /\ GroupedReturned
  /\ last.args = <<"D", "category">>
  /\ Len(pre.rows) >= 2
  /\ DayOfRow(1) > DayOfRow(2)
  /\ Len(last.out.value.columns) = 2
  /\ FirstDayOf("category", last.out.value.columns[1])
       > FirstDayOf("category", last.out.value.columns[2])
  /\ Len(BucketKeys) >= 2

\* the frequencies whose every bucket lies inside one bucket of frequency f
Finer(f) ==
  CASE f = "D" -> {}
    [] f = "W" -> {"D"}
    [] f = "M" -> {"D"}
    [] f = "Q" -> {"D", "M"}
    [] f = "Y" -> {"D", "M", "Q"}

\* the number a cell adds to a sum (sums skip NaN)
CellValue(c) == IF c = NaN THEN 0 ELSE c[1]

\* the result of the resample of the table at frequency g with the group
\* column of the last call
ResampleAt(g) == Outcome(pre, "analyze_time_series", <<g, last.args[2]>>).value

\* the values of the buckets of an ungrouped result v that lie in the
\* bucket of frequency f keyed by day key (0 for the others)
ValuesInSpan(v, f, key) ==
  [b \in 1..Len(v) |-> IF EndOfPeriod(f, v[b].key[1], key) THEN v[b].value ELSE 0]

\* the same for column k of a grouped result v
CellsInSpan(v, k, f, key) ==
  [b \in 1..Len(v.rows) |->
     IF EndOfPeriod(f, v.rows[b].key[1], key) THEN CellValue(v.rows[b].cells[k]) ELSE 0]

\* C12: for every finer frequency g nested in the frequency f of a resample,
\* the values of the buckets of the resample at g that lie in the span of a
\* bucket of the resample at f add up to that bucket's value (per group with
\* a group column), and the grand total of both resamples is the sum of all
\* amounts (of the group's amounts, per group).
C12_Reaggregation ==
  ResampleReturned =>
    LET f == last.args[1]
        v == last.out.value
    IN  IF last.args[2] = NoArg
        THEN /\ SumSeq([b \in 1..Len(v) |-> v[b].value]) = AmountOver(1..Len(pre.rows))
             /\ \A g \in Finer(f) :
                   LET w == ResampleAt(g)
                   IN  /\ SumSeq([b \in 1..Len(w) |-> w[b].value])
                            = AmountOver(1..Len(pre.rows))
                       /\ \A b \in 1..Len(v) :
                             v[b].value = SumSeq(ValuesInSpan(w, f, v[b].key[1]))
        ELSE \A k \in 1..Len(v.columns) :
               /\ SumSeq([b \in 1..Len(v.rows) |-> CellValue(v.rows[b].cells[k])])
                    = AmountOver(RowsOfKey(last.args[2], v.columns[k]))
               /\ \A g \in Finer(f) :
                     LET w == ResampleAt(g)
                     IN  /\ w.columns = v.columns
                         /\ SumSeq([b \in 1..Len(w.rows) |-> CellValue(w.rows[b].cells[k])])
                              = AmountOver(RowsOfKey(last.args[2], v.columns[k]))
                         /\ \A b \in 1..Len(v.rows) :
                               CellValue(v.rows[b].cells[k])
                                 = SumSeq(CellsInSpan(w, k, f, v.rows[b].key[1]))

\* a weekly resample with a bucket that holds two daily buckets with records
C12_Witness ==
  /\ UngroupedReturned
  /\ last.args[1] = "W"
  /\ LET w == ResampleAt("D")
     IN  \E b \in 1..Len(last.out.value), c \in 1..Len(w), d \in 1..Len(w) :
            /\ c < d
            /\ w[c].value > 0
            /\ w[d].value > 0
            /\ EndOfPeriod("W", w[c].key[1], last.out.value[b].key[1])
            /\ EndOfPeriod("W", w[d].key[1], last.out.value[b].key[1])
            /\ last.out.value[b].value = w[c].value + w[d].value

DistributionReturned == last.op = "get_spending_distribution" /\ Returned

\* C13: the distribution over an existing column has exactly one entry per
\* distinct value of the column, its value the sum of the amounts of the rows
\* with that value, and every entry's value is at least the next entry's.
C13_Distribution ==
  (/\ last.op = "get_spending_distribution"
   /\ ~NoData(pre)
   /\ last.args[1] \in pre.columns)
  => LET v   == last.out.value
         col == last.args[1]
         distinct == {pre.rows[j][col] : j \in 1..Len(pre.rows)}
     IN  /\ Returned
         /\ {v[i].key : i \in 1..Len(v)} = distinct
         /\ Len(v) = Cardinality(distinct)
         /\ \A i \in 1..Len(v) : v[i].value = AmountOver(RowsOfKey(col, v[i].key))
         /\ \A i \in 1..(Len(v) - 1) : v[i].value >= v[i + 1].value

\* a distribution whose order by value is not the sort order of the keys
C13_Witness ==
  /\ DistributionReturned
  /\ last.args[1] = "category"
  /\ Len(pre.rows) = 3
  /\ Len(last.out.value) = 2
  /\ last.out.value[1].key > last.out.value[2].key
  /\ last.out.value[1].value > last.out.value[2].value

\* the number of the first row of the table whose column col holds key
FirstRowOf(col, key) == SetMin(RowsOfKey(col, key))

\* C14: in the distribution, two groups of equal summed amount appear in
\* first-seen order: the group whose first row comes earlier in the table
\* comes first.
C14_FirstSeenTies ==
  DistributionReturned =>
    LET v   == last.out.value
        col == last.args[1]
    IN  \A i \in 1..Len(v), j \in 1..Len(v) :
          (i < j /\ v[i].value = v[j].value)
            => FirstRowOf(col, v[i].key) < FirstRowOf(col, v[j].key)

TopNCalled == last.op = "get_top_spending_categories" /\ ~NoData(pre)

\* C15: for n >= 0 on a non-empty table, the top n categories are the first
\* min(n, number of distinct categories) entries of the distribution by
\* category, in the same order with the same values.
C15_TopNIsPrefix ==
  (TopNCalled /\ last.args[1] >= 0) =>
    LET d == Outcome(pre, "get_spending_distribution", <<"category">>)
        c == Cardinality({pre.rows[j].category : j \in 1..Len(pre.rows)})
        k == IF last.args[1] < c THEN last.args[1] ELSE c
    IN  /\ Returned
        /\ d.status = "ok"
        /\ Len(last.out.value) = k
        /\ \A i \in 1..k : last.out.value[i] = d.value[i]

\* the top 1 of a table with two categories
C15_Witness ==
  /\ TopNCalled
  /\ last.args[1] = 1
  /\ Returned
  /\ Len(last.out.value) = 1
  /\ Cardinality({pre.rows[j].category : j \in 1..Len(pre.rows)}) = 2

\* C16: the top n categories called with a negative n on a non-empty table
\* fail with an error and return no series.
C16_NegativeNRejected ==
  (TopNCalled /\ last.args[1] < 0) => last.out.status = "error"

SegmentCalled == last.op = "segment_customers" /\ ~NoData(pre)

\* the distinct customers of the table
Customers == {pre.rows[j].customer_id : j \in 1..Len(pre.rows)}

\* the number of rows of the segmentation result with label s
SegmentSize(s) ==
  Cardinality({i \in 1..Len(last.out.value) : last.out.value[i].segment = s})

\* the labels in use in the segmentation result
LabelsUsed == {last.out.value[i].segment : i \in 1..Len(last.out.value)}

\* C17: for n_segments >= 1 on a non-empty table, the segmentation has
\* exactly one row per distinct customer, with the customer's total amount
\* and one segment label, and the segment sizes add up to the number of
\* distinct customers.
C17_SegmentPartition ==
  (SegmentCalled /\ last.args[1] >= 1) =>
    /\ Returned
    /\ LET v == last.out.value
       IN  /\ {v[i].customer_id : i \in 1..Len(v)} = Customers
           /\ Len(v) = Cardinality(Customers)
           /\ \A i \in 1..Len(v) :
                 /\ v[i].amount = AmountOver(RowsOfKey("customer_id", v[i].customer_id))
                 /\ v[i].segment \in 1..last.args[1]
           /\ SumSeq([s \in 1..last.args[1] |-> SegmentSize(s)]) = Cardinality(Customers)

\* three customers in two segments
C17_Witness ==
  /\ SegmentCalled
  /\ last.args[1] = 2
  /\ Returned
  /\ Len(last.out.value) = 3
  /\ Cardinality(Customers) = 3

\* C18: for N distinct customers and 1 <= n_segments <= N there are exactly
\* n_segments bands; each but the last holds floor(N / n_segments) customers
\* and the last holds the rest.
C18_BandSizes ==
  (SegmentCalled /\ last.args[1] >= 1 /\ last.args[1] <= Cardinality(Customers)) =>
    LET n  == last.args[1]
        nc == Cardinality(Customers)
    IN  /\ Returned
        /\ LabelsUsed = 1..n
        /\ \A s \in 1..(n - 1) : SegmentSize(s) = nc \div n
        /\ SegmentSize(n) = nc - (n - 1) * (nc \div n)

\* three customers in two bands: one in the first, two in the last
C18_Witness ==
  /\ SegmentCalled
  /\ last.args[1] = 2
  /\ Returned
  /\ Cardinality(Customers) = 3
  /\ SegmentSize(1) = 1
  /\ SegmentSize(2) = 2

\* C19: the labels in use are Segment 1 .. Segment k, none skipped; the
\* rows are in non-increasing order of total amount; a customer in an
\* earlier segment has at least the total amount of one in a later segment.
C19_RankOrder ==
  (last.op = "segment_customers" /\ Returned) =>
    LET v == last.out.value
    IN  /\ \E k \in 1..Len(v) : LabelsUsed = 1..k
        /\ \A i \in 1..(Len(v) - 1) : v[i].amount >= v[i + 1].amount
        /\ \A a \in 1..Len(v), b \in 1..Len(v) :
              v[a].segment < v[b].segment => v[a].amount >= v[b].amount

\* three customers in three segments, the highest spender not the customer
\* with the first key
C19_Witness ==
  /\ SegmentCalled
  /\ last.args[1] = 3
  /\ Returned
  /\ Len(last.out.value) = 3
  /\ last.out.value[1].amount > last.out.value[3].amount
  /\ last.out.value[1].customer_id > last.out.value[2].customer_id
  /\ LabelsUsed = 1..3

\* C20: with fewer distinct customers than n_segments the call returns, every
\* customer is alone in its segment and the labels are Segment 1 .. Segment N
\* for N distinct customers.
C20_FewerCustomers ==
  (SegmentCalled /\ last.args[1] > Cardinality(Customers)) =>
    /\ Returned
    /\ Len(last.out.value) = Cardinality(Customers)
    /\ LabelsUsed = 1..Cardinality(Customers)
    /\ \A s \in LabelsUsed : SegmentSize(s) = 1

\* two customers and four segments asked for
C20_Witness ==
  /\ SegmentCalled
  /\ last.args[1] = 4
  /\ Cardinality(Customers) = 2
  /\ Returned
  /\ LabelsUsed = {1, 2}

MetricsCalled == last.op = "calculate_customer_metrics" /\ ~NoData(pre)

\* C21: customer metrics of a table of dated records has exactly one row per
\* distinct customer, with the number of the customer's records, their sum,
\* the whole days between its earliest and latest record (0 when they fall
\* on one day) and a frequency of count / days_active when days_active > 0
\* and of count when days_active = 0 (never a division by zero).
C21_CustomerMetrics ==
  (MetricsCalled /\ pre.date_dtype = "datetime64") =>
    /\ Returned
    /\ LET v == last.out.value
       IN  /\ {v[i].customer_id : i \in 1..Len(v)} = Customers
           /\ Len(v) = Cardinality(Customers)
           /\ \A i \in 1..Len(v) :
                 LET mine == RowsOfKey("customer_id", v[i].customer_id)
                     days == {Day(pre.rows[j].date) : j \in mine}
                 IN  /\ v[i].amount_count = Cardinality(mine)
                     /\ v[i].amount_sum = AmountOver(mine)
                     /\ v[i].days_active = SetMax(days) - SetMin(days)
                     /\ v[i].days_active >= 0
                     /\ v[i].frequency[2] # 0
                     /\ IF v[i].days_active > 0
                        THEN v[i].frequency[1] * v[i].days_active
                               = v[i].amount_count * v[i].frequency[2]
                        ELSE v[i].frequency[1] = v[i].amount_count * v[i].frequency[2]

\* a customer with two records 90 days apart and a customer with one record
C21_Witness ==
  /\ MetricsCalled
  /\ Returned
  /\ \E i \in 1..Len(last.out.value) :
        /\ last.out.value[i].amount_count = 2
        /\ last.out.value[i].days_active = 90
        /\ last.out.value[i].frequency = <<2, 90>>
  /\ \E i \in 1..Len(last.out.value) :
        /\ last.out.value[i].days_active = 0
        /\ last.out.value[i].frequency = <<1, 1>>

CorrelationCalled == last.op = "get_category_correlation" /\ ~NoData(pre)

\* the distinct categories of the table
Categories == {pre.rows[j].category : j \in 1..Len(pre.rows)}

\* the rows of the table of customer k and category c, as row numbers
RowsOfPair(k, c) ==
  {j \in 1..Len(pre.rows) : pre.rows[j].customer_id = k /\ pre.rows[j].category = c}

\* C22: the pivot that the category correlation is computed from has one row
\* per distinct customer and one column per distinct category; the cell of
\* a customer and a category is the sum of the amounts of the customer's
\* records in the category, 0 for a pair without a record.
C22_PivotZeroFilled ==
  CorrelationCalled =>
    LET pv == PivotTable(pre.rows)
    IN  /\ Range(pv.index) = Customers
        /\ Len(pv.index) = Cardinality(Customers)
        /\ Range(pv.columns) = Categories
        /\ Len(pv.columns) = Cardinality(Categories)
        /\ \A i \in 1..Len(pv.index), j \in 1..Len(pv.columns) :
              /\ pv.cells[i][j] = AmountOver(RowsOfPair(pv.index[i], pv.columns[j]))
              /\ RowsOfPair(pv.index[i], pv.columns[j]) = {} => pv.cells[i][j] = 0

\* a pivot with a pair of two records and a pair without a record
C22_Witness ==
  /\ CorrelationCalled
  /\ Returned
  /\ LET pv == PivotTable(pre.rows)
     IN  /\ \E i \in 1..Len(pv.index), j \in 1..Len(pv.columns) :
               /\ Cardinality(RowsOfPair(pv.index[i], pv.columns[j])) = 2
               /\ pv.cells[i][j] = 3
         /\ \E i \in 1..Len(pv.index), j \in 1..Len(pv.columns) :
               /\ RowsOfPair(pv.index[i], pv.columns[j]) = {}
               /\ pv.cells[i][j] = 0

\* the correlation entry p (NaN or <<cov, var_a, var_b>>) is exactly 1
IsOne(p) == p # NaN /\ p[1] > 0 /\ p[1] * p[1] = p[2] * p[3]

\* the correlation entries p and q are the same number (or both NaN)
SameCorrelation(p, q) ==
  IF p = NaN \/ q = NaN THEN p = q
  ELSE /\ (p[1] > 0) = (q[1] > 0)
       /\ (p[1] < 0) = (q[1] < 0)
       /\ p[1] * p[1] * q[2] * q[3] = q[1] * q[1] * p[2] * p[3]

\* the customers' totals in category c are not all the same
HasVariance(c) ==
  \E k1 \in Customers, k2 \in Customers :
     AmountOver(RowsOfPair(k1, c)) # AmountOver(RowsOfPair(k2, c))

\* C23: the category correlation is a square matrix with one row and one
\* column per distinct category; when every category's pivot column varies
\* across the customers the matrix is symmetric and every diagonal entry is
\* exactly 1.
C23_SymmetricUnitDiagonal ==
  CorrelationCalled =>
    /\ Returned
    /\ LET v == last.out.value
           m == Cardinality(Categories)
       IN  /\ Range(v.columns) = Categories
           /\ Len(v.columns) = m
           /\ Len(v.cells) = m
           /\ \A a \in 1..m : Len(v.cells[a]) = m
           /\ (\A c \in Categories : HasVariance(c)) =>
                /\ \A a \in 1..m : IsOne(v.cells[a][a])
                /\ \A a \in 1..m, b \in 1..m :
                      /\ v.cells[a][b] # NaN
                      /\ SameCorrelation(v.cells[a][b], v.cells[b][a])

\* two categories whose pivot columns vary, with different variances
C23_Witness ==
  /\ CorrelationCalled
  /\ Returned
  /\ Cardinality(Categories) = 2
  /\ \A c \in Categories : HasVariance(c)
  /\ last.out.value.cells[1][2] # NaN
  /\ last.out.value.cells[1][2][2] # last.out.value.cells[1][2][3]
  /\ IsOne(last.out.value.cells[2][2])

\* C27: on a non-empty table segment_customers with n_segments <= 0 ends in
\* an error and returns no table: a division by zero for 0, a mismatch
\* between the labels and the customers for every negative n_segments.
C27_NonPositiveSegments ==
  (SegmentCalled /\ last.args[1] <= 0) =>
    last.out = IF last.args[1] = 0 THEN Err(ZeroDivisionError) ELSE Err(LengthMismatch)

\* a negative n_segments on a table of two customers
C27_Witness ==
  /\ SegmentCalled
  /\ last.args[1] = 0 - 1
  /\ Cardinality(Customers) = 2
  /\ last.out = Err(LengthMismatch)

\* the ungrouped resample of the table at the frequency of the last call
UngroupedAt == Outcome(pre, "analyze_time_series", <<last.args[1], NoArg>>).value

\* the sum across the group columns of bucket b of the grouped result
AcrossGroups(b) ==
  SumSeq([k \in 1..Len(last.out.value.columns) |->
            CellValue(last.out.value.rows[b].cells[k])])

\* C28 as stated: the bucket axis of the grouped resample is the bucket axis
\* of the ungrouped resample of the same table, and in every bucket the sum
\* across the groups is the ungrouped value.
C28_SameAxis ==
  GroupedReturned =>
    /\ BucketKeys = [b \in 1..Len(UngroupedAt) |-> UngroupedAt[b].key[1]]
    /\ \A b \in 1..Len(BucketKeys) : AcrossGroups(b) = UngroupedAt[b].value

\* some group has a record in or before the period keyed by day key, and a
\* record in or after it
InSomeGroupSpan(key) ==
  \E c \in {pre.rows[i][last.args[2]] : i \in 1..Len(pre.rows)} :
     /\ \E i \in RowsOfKey(last.args[2], c) : DayOfRow(i) <= key
     /\ \E i \in RowsOfKey(last.args[2], c) :
           \/ DayOfRow(i) >= key
           \/ EndOfPeriod(last.args[1], DayOfRow(i), key)

\* C28 as amended: the buckets of the grouped resample are those buckets of
\* the ungrouped resample that lie in the span (first to last record) of
\* some group; in each of them the sum across the groups (absent counted as
\* 0) is the ungrouped value; the ungrouped buckets that lie in no group's
\* span have the value 0 and are missing from the grouped result.
C28_AxisWithinGroupSpans ==
  GroupedReturned =>
    LET u == UngroupedAt
    IN  /\ Range(BucketKeys) = {u[b].key[1] : b \in {x \in 1..Len(u) : InSomeGroupSpan(u[x].key[1])}}
        /\ \A b \in 1..Len(BucketKeys) :
              \E x \in 1..Len(u) :
                 u[x].key[1] = BucketKeys[b] /\ AcrossGroups(b) = u[x].value
        /\ \A x \in 1..Len(u) : ~InSomeGroupSpan(u[x].key[1]) => u[x].value = 0

\* a monthly grouped resample of a table in which one group's records all
\* precede the other's, with months without records in between
C28_Witness ==
  /\ GroupedReturned
  /\ last.args = <<"M", "category">>
  /\ Len(last.out.value.columns) = 2
  /\ Len(BucketKeys) = 2
  /\ Len(UngroupedAt) > 3
  /\ \E x \in 1..Len(UngroupedAt) : ~InSomeGroupSpan(UngroupedAt[x].key[1])

\* the total of customer k in category c
PairTotal(k, c) == AmountOver(RowsOfPair(k, c))

\* the sum over the customers in K of the products of their totals in the
\* categories a and b
RECURSIVE ProductOver(_, _, _)
ProductOver(K, a, b) ==
  IF K = {} THEN 0
  ELSE LET k == CHOOSE x \in K : TRUE
       IN  PairTotal(k, a) * PairTotal(k, b) + ProductOver(K \ {k}, a, b)

\* n * n times the covariance of the customers' totals in categories a and b
Covariance(a, b) ==
  Cardinality(Customers) * ProductOver(Customers, a, b)
    - AmountOver(RowsOfKey("category", a)) * AmountOver(RowsOfKey("category", b))

\* C24: when a category's pivot column has no variance across the customers
\* the category correlation still returns the full matrix: every entry of
\* that category's row and column is NaN, and the entry of two categories
\* that vary is the correlation coefficient of their two columns.
C24_ZeroVarianceIsNaN ==
  CorrelationCalled =>
    /\ Returned
    /\ LET v == last.out.value
           m == Cardinality(Categories)
       IN  /\ Range(v.columns) = Categories
           /\ Len(v.columns) = m
           /\ Len(v.cells) = m
           /\ \A a \in 1..m, b \in 1..m :
                 IF HasVariance(v.columns[a]) /\ HasVariance(v.columns[b])
                 THEN /\ v.cells[a][b] # NaN
                      /\ SameCorrelation(v.cells[a][b],
                           <<Covariance(v.columns[a], v.columns[b]),
                             Covariance(v.columns[a], v.columns[a]),
                             Covariance(v.columns[b], v.columns[b])>>)
                 ELSE v.cells[a][b] = NaN

\* three categories and two customers who spend the same in one of them:
\* its row and column are NaN, the entry of the other two is a number
C24_Witness ==
  /\ CorrelationCalled
  /\ Returned
  /\ Cardinality(Customers) = 2
  /\ Cardinality(Categories) = 3
  /\ \E c \in Categories :
        /\ ~HasVariance(c)
        /\ PairTotal(1, c) > 0
        /\ \A d \in Categories \ {c} : HasVariance(d)
  /\ \E a \in 1..3, b \in 1..3 : a # b /\ last.out.value.cells[a][b] # NaN
  /\ \E a \in 1..3 : \A b \in 1..3 :
        last.out.value.cells[a][b] = NaN /\ last.out.value.cells[b][a] = NaN

\* some record of the table has no amount or no category
HasNullCell ==
  \E i \in 1..Len(pre.rows) :
     IsNull(pre.rows[i], "amount") \/ IsNull(pre.rows[i], "category")

\* C25: when a record of the table has a null amount or a null category,
\* every analysis operation fails with an error instead of returning a
\* result computed from the remaining values.
C25_FailsFastOnNull ==
  (last.op \in AnalysisOps /\ ~NoData(pre) /\ HasNullCell) => last.out.status = "error"

LoadCalled == last.op = "load_data"

\* C26: load_data fails with FileNotFoundError when the file does not
\* exist and with ValueError when the file lacks a required column; it
\* returns a table only when every required column is present, and the
\* table returned is the loader's data.
C26_LoadData ==
  LoadCalled =>
    /\ ~last.args[1].exists => last.out = Err(FileNotFoundError)
    /\ (last.args[1].exists /\ ~(Columns \subseteq last.args[1].columns))
         => last.out = Err(MissingColumnsError)
    /\ Returned =>
         /\ last.args[1].exists
         /\ Columns \subseteq last.args[1].columns
         /\ last.out.value = loader.data

\* a load of a file of two records that returns the loader's table, its
\* dates parsed
C26_Witness ==
  /\ LoadCalled
  /\ Returned
  /\ Len(last.args[1].rows) = 2
  /\ last.out.value = loader.data
  /\ loader.data.date_dtype = "datetime64"
  /\ loader.file_path = last.args[1]

\* C29: a load that fails because the file is not found or a required
\* column is missing leaves the loader's data and file_path as they were
\* before the call.
C29_FailedLoadLeavesLoader ==
  (LoadCalled /\ last.out \in {Err(FileNotFoundError), Err(MissingColumnsError)})
    => loader = loader_pre

AnalyzerBuilt == last.op = "main" /\ given # None

\* the row passes every filter among those named that the arguments give
Satisfies(r, args, names) ==
  /\ ("date range" \in names /\ args.start_date # NoDate)
       => Day(r.date) >= Day(ToDatetime(args.start_date))
  /\ ("date range" \in names /\ args.end_date # NoDate)
       => Day(r.date) <= Day(ToDatetime(args.end_date))
  /\ ("category" \in names /\ args.category # NoFilter) => r.category \in args.category
  /\ ("customer" \in names /\ args.customer # NoFilter) => r.customer_id \in args.customer

RowsLeft(args, names) ==
  SelectSeq(loader.data.rows, LAMBDA r : Satisfies(r, args, names))

FiltersUpTo(name) ==
  CASE name = "date range" -> {"date range"}
    [] name = "category"   -> {"date range", "category"}
    [] name = "customer"   -> {"date range", "category", "customer"}

\* C30: in the command-line flow the table handed to the analyzer holds
\* exactly the loaded rows that satisfy every filter given, and each count
\* printed is the number of rows left after all the filters applied so far.
C30_FiltersCumulative ==
  AnalyzerBuilt =>
    /\ given.rows = RowsLeft(last.args[2], {"date range", "category", "customer"})
    /\ \A i \in 1..Len(last.printed) :
         last.printed[i].rows
           = Len(RowsLeft(last.args[2], FiltersUpTo(last.printed[i].filter)))

====
